---- MODULE Spec2Model ----
(***************************************************************************)
(* Curation and delivery pipeline of ai_frontier: the digest store         *)
(* (DigestRepository), the scoring pass (BaseProcessService.process as     *)
(* specialised by DigestProcessor), the per-user fan-out of                *)
(* run_daily_pipeline and the delivery run (send_digest_email).            *)
(*                                                                         *)
(* Time is an integer clock `now`; a window of `hours` starts at           *)
(* now - hours.  A timestamp column that is NULL is modelled by NULL.      *)
(***************************************************************************)
EXTENDS Integers, Sequences, FiniteSets, TLC

\* ------------------------------------------------------------------ bounds
NumItems == 2       \* stored content items
MaxTime == 2        \* the clock runs from InitNow to MaxTime
MaxHours == 1       \* hours parameter of a run is drawn from 1..MaxHours
MaxTopN == 2        \* top_n parameter of a delivery run is drawn from 0..MaxTopN
MaxEmails == 2      \* emails the mail transport accepts
MaxText == 6        \* tokens of a model response text
MaxBatch == 2       \* items in one fetched or stored batch
MaxGreeting == 3    \* tokens of a greeting returned by the model

\* The instant at which the behaviours start; the stored items were published
\* at 0..InitNow.
InitNow == 1
NULL == -1
None == [none |-> TRUE]

\* ------------------------------------------------------------ value spaces
\* Stored items: odd ids are RSS articles of source "openai", even ids are
\* videos (get_recent_videos gives them the type "youtube").
ItemIds == 1..NumItems
TypeOf(n) == IF n % 2 = 1 THEN "openai" ELSE "youtube"

\* The static default profile, and what get_all_active_users can return:
\* the profiles of zero, one or two active users.
USER_PROFILE == "default"
ActiveUserLists == {<<>>, <<"A">>, <<"A", "B">>}
\* Invocations of process(): the daily runner's, and two invocations of the
\* digest Lambda handler, which may overlap.
LambdaProcs == {"lambda1", "lambda2"}
Procs == {"daily"} \cup LambdaProcs

\* What the model capability can return for one item once parsed and
\* validated (CuratorDigestOutput); the result depends on the profile and is
\* not reproducible from call to call.
CuratorDigestOutput ==
    { [title |-> "T1", summary |-> "S1", relevance_score |-> 7,
       reasoning |-> "R1", category |-> "news"],
      [title |-> "T2", summary |-> "S2", relevance_score |-> 9,
       reasoning |-> "R2", category |-> "research"] }

\* A model response text is a sequence of tokens: the two fence marks (three
\* backquotes followed by json, three backquotes alone), the
\* braces, a run of prose (text without fence, brace or JSON) and the
\* members of a JSON object, one token per kind of payload.  Whitespace is
\* left out: strip() and json.loads ignore it around a document.
FENCE_JSON == "fence_json"
FENCE == "fence"
Bodies == {"fields", "no_score", "score_low", "score_high", "no_category",
           "bad_category"}
TextTokens == {FENCE_JSON, FENCE, "{", "}", "prose", "fields"}

\* f"{article_type}:{article_id}"
digest_id(article_type, article_id) == <<article_type, ":", article_id>>

Max(a, b) == IF a >= b THEN a ELSE b

\* --------------------------------------------------------------- variables
VARIABLES
    now,        \* datetime.now(timezone.utc)
    articles,   \* content store: item id -> published_at (articles + youtube_videos)
    digests,    \* the digests table: a set of rows
    pass,       \* per invocation of BaseProcessService.process: its locals
    runner,     \* run_daily_pipeline: stage and position in active_users
    delivery,   \* send_digest_email: position, locals and returned dict
    emails,     \* history: what the mail transport accepted, in order
    call,       \* history: the last direct call of an operation, or model response
    item_rows,  \* the articles and youtube_videos tables as their writers see them
    scraping    \* run_scrapers: position in SCRAPER_REGISTRY and its results

vars == <<now, articles, digests, pass, runner, delivery, emails, call,
          item_rows, scraping>>

\* ----------------------------------------------------------------- agents
\* [cat.value for cat in ContentCategory]
VALID_CATEGORIES ==
    {"technique", "research", "education", "announcement", "analysis",
     "tutorial", "opinion", "news", "others"}

\* A string member that the payload leaves out.
Missing == "(missing)"

\* The members each kind of payload carries; a relevance_score left out is
\* NULL.
Payload(body) ==
    LET full == [title |-> "T1", summary |-> "S1", relevance_score |-> 7,
                 reasoning |-> "R1", category |-> "news"]
    IN  CASE body = "fields"       -> full
          [] body = "no_score"     -> [full EXCEPT !.relevance_score = NULL]
          [] body = "score_low"    -> [full EXCEPT !.relevance_score = -1]
          [] body = "score_high"   -> [full EXCEPT !.relevance_score = 11]
          [] body = "no_category"  -> [full EXCEPT !.category = Missing]
          [] body = "bad_category" -> [full EXCEPT !.category = "bogus"]
          [] OTHER                 -> [title |-> Missing, summary |-> Missing,
                                       relevance_score |-> NULL,
                                       reasoning |-> Missing,
                                       category |-> Missing]

\* CuratorDigestOutput(**data): title, summary, relevance_score (ge 0,
\* le 10) and reasoning are required; category is any string, "others" when
\* left out.  A ValidationError is ok = FALSE.
validate(data) ==
    IF \/ data.title = Missing \/ data.summary = Missing
       \/ data.reasoning = Missing
       \/ data.relevance_score = NULL
       \/ data.relevance_score < 0 \/ data.relevance_score > 10
    THEN [ok |-> FALSE, value |-> None]
    ELSE [ok |-> TRUE,
          value |-> [data EXCEPT !.category =
                        IF data.category = Missing THEN "others" ELSE @]]

\* json.loads: a document is one object, "{" members "}" or "{}".
json_loads(s) ==
    IF s = <<"{", "}">> THEN [ok |-> TRUE, data |-> "empty"]
    ELSE IF Len(s) = 3 /\ s[1] = "{" /\ s[3] = "}" /\ s[2] \in Bodies
    THEN [ok |-> TRUE, data |-> s[2]]
    ELSE [ok |-> FALSE, data |-> "none"]

\* data = json.loads(text); return output_class(**data)
parse_and_validate(s) ==
    IF json_loads(s).ok THEN validate(Payload(json_loads(s).data))
    ELSE [ok |-> FALSE, value |-> None]

\* str.find(sub, start) for a fence mark: the first position from start on
\* that holds one of the marks, 0 when there is none (where find gives -1).
find(text, marks, start) ==
    LET S == { k \in start..Len(text) : text[k] \in marks }
    IN  IF S = {} THEN 0 ELSE CHOOSE k \in S : \A m \in S : k <= m

\* text[:-1]: the text without its last character.  A brace is one
\* character; prose cut short is prose; members cut short are no members.
drop_last_char(s) ==
    IF s = <<>> THEN <<>>
    ELSE LET l == s[Len(s)]
             init == SubSeq(s, 1, Len(s) - 1)
         IN  IF l \in {"{", "}"} THEN init ELSE Append(init, "prose")

\* response_text[json_start:json_end] for the fence mark found at open;
\* json_end is -1 when no fence mark follows.
fenced(text, open) ==
    LET json_end == find(text, {FENCE, FENCE_JSON}, open + 1)
    IN  IF json_end # 0 THEN SubSeq(text, open + 1, json_end - 1)
        ELSE drop_last_char(SubSeq(text, open + 1, Len(text)))

\* The regular expression never matching.
greedy_span_none(text) == [found |-> FALSE, span |-> <<>>]

\* re.search(r'\{.*\}', text, re.DOTALL): from the first "{" to the last "}".
greedy_span(text) ==
    LET i == find(text, {"{"}, 1)
        J == { k \in 1..Len(text) : text[k] = "}" /\ k > i }
    IN  IF i = 0 \/ J = {} THEN [found |-> FALSE, span |-> <<>>]
        ELSE [found |-> TRUE,
              span |-> SubSeq(text, i, CHOOSE k \in J : \A m \in J : m <= k)]

\* BaseAgent._parse_structured_output: ok = FALSE is the ValueError it raises.
parse_structured_output(response_text) ==
    LET text == IF find(response_text, {FENCE_JSON}, 1) # 0
                THEN fenced(response_text,
                            find(response_text, {FENCE_JSON}, 1))
                ELSE IF find(response_text, {FENCE}, 1) # 0
                THEN fenced(response_text, find(response_text, {FENCE}, 1))
                ELSE response_text
        first == parse_and_validate(text)
        json_match == greedy_span(text)
    IN  IF first.ok THEN first
        ELSE IF json_match.found THEN parse_and_validate(json_match.span)
        ELSE [ok |-> FALSE, value |-> None]

\* What a call of the model capability can give: an exception of the client,
\* or a response text, here a JSON object of each kind of payload or prose.
ModelResponses ==
    {[raised |-> TRUE, text |-> <<>>], [raised |-> FALSE, text |-> <<"prose">>]}
        \cup { [raised |-> FALSE, text |-> <<"{", b, "}">>] : b \in Bodies }

\* generate_structured_response with a range check that clamps the score.
generate_digest_with_score_clamped(response) ==
    IF response.raised \/ ~json_loads(response.text).ok THEN None
    ELSE LET data == Payload(json_loads(response.text).data)
             score == IF data.relevance_score = NULL THEN 0
                      ELSE IF data.relevance_score > 10 THEN 10
                      ELSE IF data.relevance_score < 0 THEN 0
                      ELSE data.relevance_score
         IN  validate([data EXCEPT !.relevance_score = score]).value

\* CuratorDigestAgent.generate_digest_with_score: the validated output, None
\* on any exception (of the client, of the extraction, of the validation).
generate_digest_with_score(response) ==
    IF response.raised THEN None
    ELSE parse_structured_output(response.text).value

\* ------------------------------------------------------- DigestRepository
HasRow(rows, id) == \E d \in rows : d.id = id

\* create_digest without the existence check: merges the row into the table.
create_digest_upsert(rows, article_type, article_id, result, published_at, t) ==
    LET id == digest_id(article_type, article_id)
        digest == [id |-> id, article_type |-> article_type,
                   article_id |-> article_id,
                   title |-> result.title, summary |-> result.summary,
                   relevance_score |-> result.relevance_score,
                   reasoning |-> result.reasoning, category |-> result.category,
                   created_at |-> IF published_at # NULL THEN published_at ELSE t,
                   sent_at |-> NULL]
    IN  [rows |-> { d \in rows : d.id # id } \cup {digest}, digest |-> digest]

\* create_digest: returns the new table and the created row, or None when a
\* row with the composite id exists.
create_digest(rows, article_type, article_id, result, published_at, t) ==
    LET id == digest_id(article_type, article_id)
        created_at == IF published_at # NULL THEN published_at ELSE t
        digest == [id |-> id, article_type |-> article_type,
                   article_id |-> article_id,
                   title |-> result.title, summary |-> result.summary,
                   relevance_score |-> result.relevance_score,
                   reasoning |-> result.reasoning, category |-> result.category,
                   created_at |-> created_at, sent_at |-> NULL]
    IN  IF HasRow(rows, id)
        THEN [rows |-> rows, digest |-> None]
        ELSE [rows |-> rows \cup {digest}, digest |-> digest]

\* get_recent_digests that never filters on sent_at.
get_recent_digests_with_sent(rows, hours, exclude_sent, t) ==
    { d \in rows : d.created_at >= t - hours }

\* get_recent_digests: the rows of the window, unsent only when exclude_sent.
get_recent_digests(rows, hours, exclude_sent, t) ==
    { d \in rows : /\ d.created_at >= t - hours
                   /\ (exclude_sent => d.sent_at = NULL) }

\* mark_digests_as_sent whose UPDATE has no WHERE clause.
mark_digests_as_sent_all(rows, digest_ids, t) ==
    [rows |-> { [d EXCEPT !.sent_at = t] : d \in rows },
     updated |-> Cardinality(rows)]

\* mark_digests_as_sent: UPDATE ... WHERE id IN digest_ids; returns the table
\* and the number of rows matched.
mark_digests_as_sent(rows, digest_ids, t) ==
    [rows |-> { IF d.id \in digest_ids THEN [d EXCEPT !.sent_at = t] ELSE d
                : d \in rows },
     updated |-> Cardinality({ d \in rows : d.id \in digest_ids })]

\* get_recent_digest_ids looking back one hour less than asked.
get_recent_digest_ids_short(rows, hours, t) ==
    { d.id : d \in { r \in rows : r.created_at >= t - (hours - 1) } }

\* get_recent_digest_ids
get_recent_digest_ids(rows, hours, t) ==
    { d.id : d \in { r \in rows : r.created_at >= t - hours } }


\* --------------------------------------- ArticleRepository, YouTubeRepository
RECURSIVE IdsFrom(_, _)
\* The ids of S from n upwards, ascending: the order in which the store
\* returns rows (insertion order).
IdsFrom(S, n) ==
    IF n > NumItems THEN <<>>
    ELSE (IF n \in S THEN <<n>> ELSE <<>>) \o IdsFrom(S, n + 1)

Take(s, limit) == IF limit # NULL /\ limit # 0 /\ limit < Len(s)
                  THEN SubSeq(s, 1, limit) ELSE s

ItemDict(store, n) == [type |-> TypeOf(n), id |-> n, published_at |-> store[n]]

\* get_recent_articles with published_at > cutoff_time.
get_recent_articles_strict(store, hours, limit, t) ==
    LET S == { n \in ItemIds : /\ TypeOf(n) = "openai"
                               /\ store[n] # NULL
                               /\ store[n] > t - hours }
        ids == Take(IdsFrom(S, 1), limit)
    IN  [k \in 1..Len(ids) |-> ItemDict(store, ids[k])]

\* get_recent_articles: the RSS articles with published_at >= cutoff_time.
get_recent_articles(store, hours, limit, t) ==
    LET S == { n \in ItemIds : /\ TypeOf(n) = "openai"
                               /\ store[n] # NULL
                               /\ store[n] >= t - hours }
        ids == Take(IdsFrom(S, 1), limit)
    IN  [k \in 1..Len(ids) |-> ItemDict(store, ids[k])]

\* get_recent_videos: the videos with published_at >= cutoff_time.
get_recent_videos(store, hours, limit, t) ==
    LET S == { n \in ItemIds : /\ TypeOf(n) = "youtube"
                               /\ store[n] # NULL
                               /\ store[n] >= t - hours }
        ids == Take(IdsFrom(S, 1), limit)
    IN  [k \in 1..Len(ids) |-> ItemDict(store, ids[k])]

\* ---------------------------------------------------------- DigestProcessor
\* [item for item in all_items
\*  if f"{item['type']}:{item['id']}" not in existing_digest_ids]
filter_items(all_items, existing_digest_ids) ==
    SelectSeq(all_items,
              LAMBDA item : digest_id(item.type, item.id)
                                \notin existing_digest_ids)

\* get_items_to_process; tDigests <= tItems are the instants of its queries.
get_items_to_process(rows, store, hours, limit, tDigests, tItems) ==
    LET existing_digest_ids == get_recent_digest_ids(rows, hours, tDigests)
        all_items == get_recent_articles(store, hours, limit, tItems)
                     \o get_recent_videos(store, hours, limit, tItems)
        filtered_items == filter_items(all_items, existing_digest_ids)
    IN  Take(filtered_items, limit)

\* save_result whose row outlives the exception of the store.
save_result_keeps_row(rows, item, result, commit_ok, t) ==
    LET r == create_digest(rows, item.type, item.id, result,
                           item.published_at, t)
    IN  [rows |-> r.rows, ok |-> commit_ok /\ r.digest # None]

\* save_result: True when create_digest made a row; False on a duplicate and
\* on any exception of the store (commit_ok = FALSE).
save_result(rows, item, result, commit_ok, t) ==
    IF ~commit_ok
    THEN [rows |-> rows, ok |-> FALSE]
    ELSE LET r == create_digest(rows, item.type, item.id, result,
                                item.published_at, t)
         IN  [rows |-> r.rows, ok |-> r.digest # None]

\* ------------------------------------------------------ BaseProcessService
IdlePass == [pc |-> "idle", profile |-> "none", items |-> <<>>,
             idx |-> 0, total |-> 0, processed |-> 0, failed |-> 0,
             duplicates |-> 0, allSeen |-> FALSE, pending |-> None]

\* Every stored item of the window already has a Digest row (history value
\* recorded when a pass starts).
AllDigested(rows, store, hours, t) ==
    /\ \E n \in ItemIds : store[n] # NULL /\ store[n] >= t - hours
    /\ \A n \in ItemIds :
          (store[n] # NULL /\ store[n] >= t - hours)
              => HasRow(rows, digest_id(TypeOf(n), n))

\* The loop body with the except branch also taken after a failed save.
count_item_twice(st, result, saved) ==
    IF result # None
    THEN IF saved
         THEN [st EXCEPT !.processed = @ + 1]
         ELSE [st EXCEPT !.failed = @ + 2]
    ELSE [st EXCEPT !.failed = @ + 1]

\* The counters after one iteration of the loop of process().
count_item(st, result, saved) ==
    IF result # None
    THEN IF saved
         THEN [st EXCEPT !.processed = @ + 1]
         ELSE [st EXCEPT !.failed = @ + 1]
    ELSE [st EXCEPT !.failed = @ + 1]

\* One iteration of the loop of process() on the table `rows`: process_item
\* (result is None when the model call raised or its output did not parse --
\* generate_digest_with_score catches every exception), then save_result.
\* `duplicates` is a history count of the saves that found the row present.
process_iteration(st, rows, result, commit_ok, t) ==
    LET item == st.items[st.idx + 1]
        sv == IF result # None
              THEN save_result(rows, item, result, commit_ok, t)
              ELSE [rows |-> rows, ok |-> FALSE]
        dup == result # None /\ commit_ok /\ ~sv.ok
    IN  [st |-> [count_item(st, result, sv.ok) EXCEPT
                    !.idx = @ + 1,
                    !.duplicates = IF dup THEN @ + 1 ELSE @],
         rows |-> sv.rows]

\* What can happen to one item: the model fails, or it answers and the
\* store then commits or raises.
ItemOutcomes ==
    {[result |-> None, commit_ok |-> TRUE]}
        \cup { [result |-> o, commit_ok |-> b] :
                  o \in CuratorDigestOutput, b \in BOOLEAN }

\* The locals of process() after get_items_to_process.
NewPass(profile, items, allSeen) ==
    [pc |-> "loop", profile |-> profile, items |-> items, idx |-> 0,
     total |-> Len(items), processed |-> 0, failed |-> 0, duplicates |-> 0,
     allSeen |-> allSeen, pending |-> None]

RECURSIVE run_loop(_, _, _, _)
\* The whole loop of process(), the outcome of item k being choices[k].
run_loop(st, rows, choices, t) ==
    IF st.idx = st.total
    THEN [st |-> st, rows |-> rows]
    ELSE LET r == process_iteration(st, rows, choices[st.idx + 1].result,
                                    choices[st.idx + 1].commit_ok, t)
         IN  run_loop(r.st, r.rows, choices, t)

\* process(), up to the loop: items = get_items_to_process(), total = len.
StartPass(p, profile, hours) ==
    \E tItems \in {now, IF now < MaxTime THEN now + 1 ELSE now} :
        LET items == get_items_to_process(digests, articles, hours, NULL,
                                          now, tItems)
        IN  /\ pass' = [pass EXCEPT ![p] =
                          NewPass(profile, items,
                                  AllDigested(digests, articles, hours, tItems))]
            /\ now' = tItems

\* One iteration of the loop.
ProcessItem(p) ==
    /\ pass[p].pc = "loop"
    /\ pass[p].idx < pass[p].total
    /\ \E c \in ItemOutcomes :
          LET r == process_iteration(pass[p], digests, c.result, c.commit_ok, now)
          IN  /\ digests' = r.rows
              /\ pass' = [pass EXCEPT ![p] = r.st]
    /\ UNCHANGED <<now, articles, runner, delivery, emails, call, item_rows, scraping>>

\* One iteration of the loop, from the response of the model capability on;
\* call keeps the response.
ProcessItemResponse(p) ==
    /\ pass[p].pc = "loop"
    /\ pass[p].idx < pass[p].total
    /\ \E response \in ModelResponses, commit_ok \in BOOLEAN :
          LET r == process_iteration(pass[p], digests,
                                     generate_digest_with_score(response),
                                     commit_ok, now)
          IN  /\ digests' = r.rows
              /\ pass' = [pass EXCEPT ![p] = r.st]
              /\ call' = [op |-> "model", raised |-> response.raised,
                          text |-> response.text]
    /\ UNCHANGED <<now, articles, runner, delivery, emails, item_rows, scraping>>

\* One iteration of the loop with create_digest in its two steps.  First
\* step: process_item and, when it returned a result, the existence query of
\* create_digest.  When the query finds no row the Digest object is built and
\* the iteration waits for its commit; otherwise the iteration ends here.
CheckExisting(p) ==
    /\ pass[p].pc = "loop"
    /\ pass[p].idx < pass[p].total
    /\ \E c \in ItemOutcomes :
          LET item == pass[p].items[pass[p].idx + 1]
              r == process_iteration(pass[p], digests, c.result, c.commit_ok, now)
          IN  IF /\ c.result # None
                 /\ c.commit_ok
                 /\ ~HasRow(digests, digest_id(item.type, item.id))
              THEN /\ pass' = [pass EXCEPT
                         ![p].pc = "insert",
                         ![p].pending = create_digest(digests, item.type, item.id,
                                           c.result, item.published_at, now).digest]
                   /\ UNCHANGED digests
              ELSE /\ digests' = r.rows
                   /\ pass' = [pass EXCEPT ![p] = r.st]
    /\ UNCHANGED <<now, articles, runner, delivery, emails, call, item_rows, scraping>>

\* The commit of a store without a primary key on Digest.id.
InsertCommit_NoKey(p) ==
    /\ pass[p].pc = "insert"
    /\ digests' = digests \cup {pass[p].pending}
    /\ pass' = [pass EXCEPT ![p] =
                  [count_item(pass[p], pass[p].pending, TRUE) EXCEPT
                      !.pc = "loop", !.idx = @ + 1, !.pending = None]]
    /\ UNCHANGED <<now, articles, runner, delivery, emails, call, item_rows, scraping>>

\* Second step: session.add and session.commit.  Digest.id is the primary
\* key: the commit raises when a row with the id has been committed since
\* the query (or for any other reason); save_result then returns False.
InsertCommit(p) ==
    /\ pass[p].pc = "insert"
    /\ \E commit_ok \in BOOLEAN :
          LET key_taken == HasRow(digests, pass[p].pending.id)
              saved == commit_ok /\ ~key_taken
          IN  /\ digests' = IF saved THEN digests \cup {pass[p].pending}
                                     ELSE digests
              /\ pass' = [pass EXCEPT ![p] =
                    [count_item(pass[p], pass[p].pending, saved) EXCEPT
                        !.pc = "loop", !.idx = @ + 1, !.pending = None,
                        !.duplicates = IF key_taken THEN @ + 1 ELSE @]]
    /\ UNCHANGED <<now, articles, runner, delivery, emails, call, item_rows, scraping>>

\* process() whose loop ends at the first failure.
ReturnPass_OnFailure(p) ==
    /\ pass[p].pc = "loop"
    /\ (pass[p].idx = pass[p].total \/ pass[p].failed > 0)
    /\ pass' = [pass EXCEPT ![p].pc = "done", ![p].items = <<>>]
    /\ UNCHANGED <<now, articles, digests, runner, delivery, emails, call, item_rows, scraping>>

\* process() returns {"total", "processed", "failed"}.
ReturnPass(p) ==
    /\ pass[p].pc = "loop"
    /\ pass[p].idx = pass[p].total
    /\ pass' = [pass EXCEPT ![p].pc = "done", ![p].items = <<>>]
    /\ UNCHANGED <<now, articles, digests, runner, delivery, emails, call, item_rows, scraping>>


\* digest_handler.lambda_handler: process_digests(hours) with USER_PROFILE.
\* Of two overlapping invocations, "lambda1" names the one that began first.
LambdaDigest(p) ==
    /\ pass[p].pc \in {"idle", "done"}
    /\ p = "lambda2" => pass["lambda1"].pc = "loop"
    /\ \E hours \in 1..MaxHours : StartPass(p, USER_PROFILE, hours)
    /\ UNCHANGED <<articles, digests, runner, delivery, emails, call, item_rows, scraping>>

\* The outcomes of one item that differ in the table they leave: a commit
\* that raises leaves what a failed model call leaves.
TableOutcomes == { c \in ItemOutcomes : c.commit_ok }

\* A whole invocation of the digest handler, from get_items_to_process to
\* the returned dict, with no other handler running meanwhile.
ProcessDigests ==
    /\ \E hours \in 1..MaxHours,
          tItems \in {now, IF now < MaxTime THEN now + 1 ELSE now} :
          LET items == get_items_to_process(digests, articles, hours, NULL,
                                            now, tItems)
          IN  \E choices \in [1..Len(items) -> TableOutcomes] :
                /\ digests' = run_loop(NewPass(USER_PROFILE, items, FALSE),
                                       digests, choices, tItems).rows
                /\ now' = tItems
    /\ UNCHANGED <<articles, pass, runner, delivery, emails, call, item_rows, scraping>>

\* ------------------------------------------------------- run_daily_pipeline
IdleRunner == [stage |-> "idle", hours |-> 0, active_users |-> <<>>,
               userIdx |-> 0, total_processed |-> 0, total_failed |-> 0,
               candidates |-> {}]

\* The items of the window that have no Digest row (history value recorded
\* when a run starts its scoring stage).
NewInWindow(rows, store, hours, t) ==
    { n \in ItemIds : /\ store[n] # NULL
                      /\ store[n] >= t - hours
                      /\ ~HasRow(rows, digest_id(TypeOf(n), n)) }

\* run_daily_pipeline up to the loop over active_users of its stage 2.
RunnerStart ==
    /\ runner.stage \in {"idle", "scored"}
    /\ pass["daily"].pc = "idle"
    /\ \E hours \in 1..MaxHours, users \in ActiveUserLists :
          runner' = [stage |-> "scoring", hours |-> hours,
                     active_users |-> users, userIdx |-> 1,
                     total_processed |-> 0, total_failed |-> 0,
                     candidates |-> NewInWindow(digests, articles, hours, now)]
    /\ UNCHANGED <<now, articles, digests, pass, delivery, emails, call, item_rows, scraping>>

\* process_digests_for_user(hours, user_profile) for the next active user.
RunnerUserPass ==
    /\ runner.stage = "scoring"
    /\ runner.userIdx <= Len(runner.active_users)
    /\ pass["daily"].pc = "idle"
    /\ StartPass("daily", runner.active_users[runner.userIdx], runner.hours)
    /\ UNCHANGED <<articles, digests, runner, delivery, emails, call, item_rows, scraping>>

\* The user's pass returned: add its counts, go to the next user.
RunnerCollect ==
    /\ runner.stage = "scoring"
    /\ pass["daily"].pc = "done"
    /\ runner' = [runner EXCEPT
                    !.total_processed = @ + pass["daily"].processed,
                    !.total_failed = @ + pass["daily"].failed,
                    !.userIdx = @ + 1]
    /\ pass' = [pass EXCEPT !["daily"].pc = "idle"]
    /\ UNCHANGED <<now, articles, digests, delivery, emails, call, item_rows, scraping>>

\* What makes process_digests_for_user raise before its loop: BaseAgent's
\* constructor without GEMINI_API_KEY, or a query of get_items_to_process.
RaiseCauses == {"config_error", "store_error"}

\* process_digests_for_user raised before its loop (the except branch of the
\* loop over active_users, the same for every exception).
RunnerUserError ==
    /\ runner.stage = "scoring"
    /\ runner.userIdx <= Len(runner.active_users)
    /\ pass["daily"].pc = "idle"
    /\ runner' = [runner EXCEPT !.total_failed = @ + 1, !.userIdx = @ + 1]
    /\ \E cause \in RaiseCauses : call' = [op |-> "raised", cause |-> cause]
    /\ UNCHANGED <<now, articles, digests, pass, delivery, emails, item_rows, scraping>>

\* End of stage 2: results["digests"] is set.
RunnerScored ==
    /\ runner.stage = "scoring"
    /\ runner.userIdx > Len(runner.active_users)
    /\ pass["daily"].pc = "idle"
    /\ runner' = [runner EXCEPT !.stage = "scored"]
    /\ UNCHANGED <<now, articles, digests, pass, delivery, emails, call, item_rows, scraping>>


\* ------------------------------------------------- generate_email_digest
\* The sort key of generate_email_digest: (relevance_score or 0.0, created_at).
ScoreKey(d) == IF d.relevance_score = NULL THEN 0 ELSE d.relevance_score

\* datetime.isoformat(): zero-padded digits of fixed width, most significant
\* first.
isoformat(t) == <<t \div 10, t % 10>>

RECURSIVE SeqLess(_, _)
\* Python's < on two strings: lexicographic.
SeqLess(a, b) ==
    IF a = <<>> THEN b # <<>>
    ELSE IF b = <<>> THEN FALSE
    ELSE IF a[1] # b[1] THEN a[1] < b[1]
    ELSE SeqLess(Tail(a), Tail(b))

\* The second component of the sort key: created_at.isoformat(), "" when
\* there is no created_at.
CreatedKey(d) == IF d.created_at = NULL THEN <<>> ELSE isoformat(d.created_at)

\* Python's >= on the key tuples of x and y.
KeyGE(x, y) ==
    \/ ScoreKey(x) > ScoreKey(y)
    \/ ScoreKey(x) = ScoreKey(y) /\ ~SeqLess(CreatedKey(x), CreatedKey(y))

\* The orders in which query.order_by(Digest.created_at.desc()).all() can
\* return the rows S: newest first, rows of equal created_at in any order.
StoreOrders(S) ==
    LET n == Cardinality(S)
    IN  { s \in [1..n -> S] :
            /\ \A i, j \in 1..n : i # j => s[i] # s[j]
            /\ \A i, j \in 1..n : i < j => s[i].created_at >= s[j].created_at }

RECURSIVE sort_forward(_)
\* list.sort(key) without reverse: ascending keys.
sort_forward(s) ==
    IF s = <<>> THEN <<>>
    ELSE LET init == sort_forward(SubSeq(s, 1, Len(s) - 1))
             x == s[Len(s)]
             k == Cardinality({ i \in 1..Len(init) : KeyGE(x, init[i]) })
         IN  SubSeq(init, 1, k) \o <<x>> \o SubSeq(init, k + 1, Len(init))

RECURSIVE sort_reverse(_)
\* list.sort(key, reverse=True): descending keys, and rows with equal keys
\* keep the order they had in the list (the sort is stable also in reverse).
sort_reverse(s) ==
    IF s = <<>> THEN <<>>
    ELSE LET init == sort_reverse(SubSeq(s, 1, Len(s) - 1))
             x == s[Len(s)]
             k == Cardinality({ i \in 1..Len(init) : KeyGE(init[i], x) })
         IN  SubSeq(init, 1, k) \o <<x>> \o SubSeq(init, k + 1, Len(init))

\* The sorted lists generate_email_digest can get from the rows S, one for
\* each order in which the store can return them.
RankedOrders(S) == { sort_reverse(s) : s \in StoreOrders(S) }

\* ranked_articles[:limit]
PySlice(s, limit) ==
    IF limit >= 0
    THEN SubSeq(s, 1, IF limit < Len(s) THEN limit ELSE Len(s))
    ELSE SubSeq(s, 1, Max(Len(s) + limit, 0))

\* generate_email_digest without the fallback to all rows.
generate_email_digest_scored_only(fetched, top_n) ==
    { PySlice(r, top_n) :
        r \in RankedOrders({ d \in fetched : d.relevance_score # NULL }) }

\* generate_email_digest that ranks every fetched row, scored or not.
generate_email_digest_unfiltered(fetched, top_n) ==
    { PySlice(r, top_n) : r \in RankedOrders(fetched) }

\* The article lists generate_email_digest can produce from the fetched
\* rows: scored rows only (all rows when none is scored), sorted, cut at top_n.
generate_email_digest(fetched, top_n) ==
    LET scored == { d \in fetched : d.relevance_score # NULL }
        scored_digests == IF scored = {} THEN fetched ELSE scored
    IN  { PySlice(r, top_n) : r \in RankedOrders(scored_digests) }

SeqRange(s) == { s[k] : k \in 1..Len(s) }

\* --------------------------------------------------------- send_digest_email
IdleDelivery == [pc |-> "idle", hours |-> 0, sent |-> "none",
                 model_called |-> FALSE, digest_ids |-> <<>>,
                 result |-> [outcome |-> "none", success |-> FALSE,
                             skipped |-> FALSE, articles_count |-> 0,
                             marked_as_sent |-> 0]]

\* send_email either returns, raises ValueError (missing sender, password or
\* recipients) or raises the transport's exception.
SendOutcomes == {"ok", "config_error", "transport_error"}

\* The marking is reached whatever send_email did.
reaches_mark_always(sent) == TRUE

\* Control reaches mark_digests_as_sent only when send_email returned.
reaches_mark(sent) == sent = "ok"

\* except ValueError: return {"success": False, "error": ...}; any other
\* exception leaves send_digest_email, which then returns nothing.
FailureResult(sent) ==
    [outcome |-> IF sent = "config_error" THEN "error" ELSE "raised",
     success |-> FALSE, skipped |-> FALSE, articles_count |-> 0,
     marked_as_sent |-> 0]

\* The short-circuit never taken.
nothing_to_send_never(fetched) == FALSE

\* if len(digests) == 0: the run returns skipped.
nothing_to_send(fetched) == fetched = {}

\* send_digest_email up to and including send_email.  A ValueError
\* (EmailAgent built without an API key, no digests on the second fetch,
\* missing mail credentials) is returned as success False; a transport
\* exception leaves the function.  model_called records whether
\* generate_introduction reached the model capability, which it does for a
\* non-empty article list.
send_digest_email(hours, top_n) ==
    /\ delivery.pc = "idle"
    /\ Len(emails) < MaxEmails
    /\ LET digests1 == get_recent_digests(digests, hours, TRUE, now)
             base == [IdleDelivery EXCEPT !.hours = hours]
         IN  IF nothing_to_send(digests1)
             THEN /\ delivery' = [base EXCEPT !.result =
                        [outcome |-> "skipped", success |-> TRUE,
                         skipped |-> TRUE, articles_count |-> 0,
                         marked_as_sent |-> 0]]
                  /\ UNCHANGED <<now, emails>>
             ELSE \E agent_ok \in BOOLEAN,
                     t2 \in {now, IF now < MaxTime THEN now + 1 ELSE now} :
                    LET digests2 == get_recent_digests(digests, hours, TRUE, t2)
                    IN  IF ~agent_ok
                        THEN /\ delivery' = [base EXCEPT !.result =
                                   FailureResult("config_error")]
                             /\ UNCHANGED <<now, emails>>
                        ELSE
                        /\ now' = t2
                        /\ IF digests2 = {}
                           THEN /\ delivery' = [base EXCEPT !.result =
                                      [outcome |-> "no_digests", success |-> FALSE,
                                       skipped |-> FALSE, articles_count |-> 0,
                                       marked_as_sent |-> 0]]
                                /\ UNCHANGED emails
                           ELSE \E articles_ \in generate_email_digest(digests2, top_n),
                                   sent \in SendOutcomes :
                                  LET ids == [k \in 1..Len(articles_) |-> articles_[k].id]
                                  IN  IF reaches_mark(sent)
                                      THEN /\ emails' = IF sent = "ok"
                                                        THEN Append(emails, ids)
                                                        ELSE emails
                                           /\ delivery' = [base EXCEPT
                                                 !.pc = "sent", !.sent = sent,
                                                 !.model_called = ids # <<>>,
                                                 !.digest_ids = ids]
                                      ELSE /\ UNCHANGED emails
                                           /\ delivery' = [base EXCEPT
                                                 !.sent = sent,
                                                 !.model_called = ids # <<>>,
                                                 !.result = FailureResult(sent)]
    /\ UNCHANGED <<articles, digests, pass, runner, item_rows, scraping>>

\* A delivery run with any parameters.
SendDigestEmail ==
    /\ \E hours \in 1..MaxHours, top_n \in 0..MaxTopN :
          send_digest_email(hours, top_n)
    /\ UNCHANGED call

\* email_handler.lambda_handler: hours and top_n come from the event; call
\* keeps them.
LambdaEmail ==
    \E hours \in 1..MaxHours, top_n \in 0..MaxTopN :
        /\ send_digest_email(hours, top_n)
        /\ call' = [op |-> "send_digest_email", hours |-> hours,
                    top_n |-> top_n]

\* The marking applied to every unsent digest of the window.
MarkSent_Window ==
    /\ delivery.pc = "sent"
    /\ LET fetched == get_recent_digests(digests, delivery.hours, TRUE, now)
           r == mark_digests_as_sent(digests, { d.id : d \in fetched }, now)
       IN  /\ digests' = r.rows
           /\ delivery' = [delivery EXCEPT !.pc = "idle", !.result =
                  [outcome |-> "sent", success |-> TRUE, skipped |-> FALSE,
                   articles_count |-> Len(delivery.digest_ids),
                   marked_as_sent |-> r.updated]]
    /\ UNCHANGED <<now, articles, pass, runner, emails, call, item_rows, scraping>>

\* send_digest_email after send_email returned: mark_digests_as_sent and
\* the returned dict.
MarkSent ==
    /\ delivery.pc = "sent"
    /\ LET r == mark_digests_as_sent(digests, SeqRange(delivery.digest_ids), now)
       IN  /\ digests' = r.rows
           /\ delivery' = [delivery EXCEPT !.pc = "idle", !.result =
                  [outcome |-> "sent", success |-> TRUE, skipped |-> FALSE,
                   articles_count |-> Len(delivery.digest_ids),
                   marked_as_sent |-> r.updated]]
    /\ UNCHANGED <<now, articles, pass, runner, emails, call, item_rows, scraping>>

\* The process stops after send_email returned and before
\* mark_digests_as_sent committed: the run returns nothing and marks nothing.
\* A behaviour holds at most one such stop.
ProcessStops_AfterMark ==
    /\ delivery.pc = "sent"
    /\ call.op = "none"
    /\ digests' = mark_digests_as_sent(digests, SeqRange(delivery.digest_ids), now).rows
    /\ delivery' = [delivery EXCEPT !.pc = "idle", !.result.outcome = "stopped"]
    /\ call' = [op |-> "stopped"]
    /\ UNCHANGED <<now, articles, pass, runner, emails, item_rows, scraping>>

ProcessStops ==
    /\ delivery.pc = "sent"
    /\ call.op = "none"
    /\ delivery' = [delivery EXCEPT !.pc = "idle", !.result.outcome = "stopped"]
    /\ call' = [op |-> "stopped"]
    /\ UNCHANGED <<now, articles, digests, pass, runner, emails, item_rows,
                   scraping>>

\* --------------------------------------------- the store's operations alone
NoCall == [op |-> "none", ids |-> {}, title |-> "", returned |-> "none"]

\* A caller invokes create_digest with any item and any model result.
CreateDigest ==
    /\ \E n \in ItemIds, result \in CuratorDigestOutput :
          LET r == create_digest(digests, TypeOf(n), n, result, articles[n], now)
          IN  /\ digests' = r.rows
              /\ call' = [op |-> "create_digest",
                          ids |-> {digest_id(TypeOf(n), n)},
                          title |-> result.title,
                          returned |-> IF r.digest = None THEN "None"
                                       ELSE "Digest"]
    /\ UNCHANGED <<now, articles, pass, runner, delivery, emails, item_rows, scraping>>

\* A caller invokes mark_digests_as_sent with any list of ids.
MarkDigestsAsSent ==
    /\ \E ids \in SUBSET { digest_id(TypeOf(n), n) : n \in ItemIds } :
          LET r == mark_digests_as_sent(digests, ids, now)
          IN  /\ digests' = r.rows
              /\ call' = [op |-> "mark_digests_as_sent", ids |-> ids,
                          title |-> "", returned |-> "count"]
    /\ UNCHANGED <<now, articles, pass, runner, delivery, emails, item_rows, scraping>>

\* create_digest's optional arguments left at their default None.
Unscored(result) ==
    [result EXCEPT !.relevance_score = NULL, !.reasoning = NULL,
                   !.category = NULL]

\* What a direct caller of create_digest passes: a scored result, or the
\* same without relevance_score, reasoning and category.
DirectResults ==
    LET o == CHOOSE r \in CuratorDigestOutput : r.relevance_score = 9
    IN  {o, Unscored(o)}

\* A caller invokes create_digest for any item, with or without a score.
CreateDigestDirect ==
    /\ \E n \in ItemIds, result \in DirectResults :
          digests' = create_digest(digests, TypeOf(n), n, result,
                                   articles[n], now).rows
    /\ UNCHANGED <<now, articles, pass, runner, delivery, emails, call, item_rows, scraping>>

\* ---------------------------------------------- the extractor alone
\* The text the model has produced so far.
ResponseText == IF call.op = "response" THEN call.text ELSE <<>>

\* The model produces the next piece of its response text.
EmitToken ==
    /\ call.op \in {"none", "response"}
    /\ Len(ResponseText) < MaxText
    /\ \E tok \in TextTokens :
          call' = [op |-> "response", text |-> Append(ResponseText, tok)]
    /\ UNCHANGED <<now, articles, digests, pass, runner, delivery, emails, item_rows, scraping>>

\* generate_structured_response hands response.text to
\* _parse_structured_output.
ParseStructuredOutput ==
    /\ call.op = "response"
    /\ call' = [op |-> "parse", text |-> call.text,
                returned |-> parse_structured_output(call.text)]
    /\ UNCHANGED <<now, articles, digests, pass, runner, delivery, emails, item_rows, scraping>>


\* ------------------------------------------------- generate_introduction
\* Texts are sequences of tokens.  user_profile['name'] of the profiles.
ProfileNames == {"A", "B"}

GreetingTokens == {"Hey", "Hello"} \cup ProfileNames \cup {"news"}

\* str.startswith.
startswith(s, prefix) ==
    /\ Len(s) >= Len(prefix)
    /\ SubSeq(s, 1, Len(prefix)) = prefix

\* f"Hey {self.user_profile['name']}".
HeyName(name) == <<"Hey", name>>

\* datetime.now().strftime('%B %d, %Y').
strftime(t) == ToString(t)

\* The greeting built by generate_introduction itself.
FallbackGreeting(name, t) ==
    HeyName(name) \o <<", here is your daily digest of AI news for", strftime(t), ".">>

NO_ARTICLES_INTRO == <<"No articles were ranked today.">>
FALLBACK_INTRO ==
    <<"Here are the top 10 AI news articles ranked by relevance to your interests.">>

\* What generate_structured_response(output_class=EmailIntroduction) does:
\* it raises ValueError or returns an EmailIntroduction.
IntroResponses ==
    { [raised |-> TRUE, greeting |-> <<>>, introduction |-> <<>>] } \cup
    { [raised |-> FALSE, greeting |-> g, introduction |-> i] :
        g \in UNION { [1..k -> GreetingTokens] : k \in 0..MaxGreeting },
        i \in { <<>>, <<"overview">> } }

generate_introduction_unchecked(name, ranked_articles, response, t) ==
    [greeting |-> response.greeting, introduction |-> response.introduction]

\* EmailAgent.generate_introduction(ranked_articles).
generate_introduction(name, ranked_articles, response, t) ==
    IF ranked_articles = <<>>
    THEN [greeting |-> FallbackGreeting(name, t),
          introduction |-> NO_ARTICLES_INTRO]
    ELSE IF response.raised
    THEN [greeting |-> FallbackGreeting(name, t),
          introduction |-> FALLBACK_INTRO]
    ELSE IF ~startswith(response.greeting, HeyName(name))
    THEN [greeting |-> FallbackGreeting(name, t),
          introduction |-> response.introduction]
    ELSE [greeting |-> response.greeting,
          introduction |-> response.introduction]

\* The lists create_email_digest_response passes on: ranked_articles[:limit].
RankedLists ==
    { a \in UNION { [1..k -> ItemIds] : k \in 0..MaxTopN } :
        \A j, k \in 1..Len(a) : a[j] = a[k] => j = k }

\* A call of generate_introduction by create_email_digest_response.  The
\* function keeps no state between calls: a behaviour holds one call.
GenerateIntroduction ==
    /\ call.op = "none"
    /\ \E name \in ProfileNames, ranked_articles \in RankedLists,
          response \in IntroResponses :
         call' = [op |-> "generate_introduction", name |-> name,
                  ranked_articles |-> ranked_articles, response |-> response,
                  t |-> now,
                  returned |-> generate_introduction(name, ranked_articles,
                                                     response, now)]
    /\ UNCHANGED <<now, articles, digests, pass, runner, delivery, emails,
                   item_rows, scraping>>

\* ------------------------------------------------------------ run_scrapers
\* Three of the eight entries of SCRAPER_REGISTRY: the video source and two
\* of the feed sources, which share the articles table.
SCRAPER_REGISTRY == <<"youtube", "openai", "anthropic">>

RegistryNames == { SCRAPER_REGISTRY[k] : k \in 1..Len(SCRAPER_REGISTRY) }

\* ArticleRepository.VALID_SOURCES, restricted to the modelled sources.
VALID_SOURCES == {"openai", "anthropic"}

\* The table a row of item_rows belongs to.
TableOf(source) == IF source = "youtube" THEN "youtube_videos" ELSE "articles"

\* Batches of guids (or video ids): sequences of at most MaxBatch ids.
GuidBatches == UNION { [1..k -> ItemIds] : k \in 0..MaxBatch }

\* What a scraper returns: get_articles keeps the first entry of each guid.
Fetches == { b \in GuidBatches : \A j, k \in 1..Len(b) : b[j] = b[k] => j = k }

\* BaseRepository._bulk_create_items: the items without a row of their own
\* (source, guid) are added and committed together.  The primary key of
\* articles is guid alone (video_id for youtube_videos): the commit raises,
\* and stores nothing, when a new item repeats the key of a row of its
\* table or of another new item.
bulk_create_items(rows, source, guids) ==
    LET new_items == SelectSeq(guids,
                        LAMBDA g : [source |-> source, guid |-> g] \notin rows)
        key_taken == \/ \E k \in 1..Len(new_items) : \E r \in rows :
                            /\ TableOf(r.source) = TableOf(source)
                            /\ r.guid = new_items[k]
                     \/ \E j, k \in 1..Len(new_items) :
                            j < k /\ new_items[j] = new_items[k]
    IN  IF new_items = <<>>
        THEN [rows |-> rows, raised |-> FALSE, created |-> 0]
        ELSE IF key_taken
        THEN [rows |-> rows, raised |-> TRUE, created |-> NULL]
        ELSE [rows |-> rows \cup { [source |-> source, guid |-> new_items[k]] :
                                     k \in 1..Len(new_items) },
              raised |-> FALSE, created |-> Len(new_items)]

\* ArticleRepository.bulk_create_articles(source, articles).
bulk_create_articles(rows, source, guids) ==
    IF source \notin VALID_SOURCES
    THEN [rows |-> rows, raised |-> TRUE, created |-> NULL]
    ELSE bulk_create_items(rows, source, guids)

\* YouTubeRepository.bulk_create_videos(videos).
bulk_create_videos(rows, guids) == bulk_create_items(rows, "youtube", guids)

\* _save_rss_articles and _save_youtube_videos: store what was fetched, if
\* anything was.
save_func(rows, name, fetched) ==
    IF fetched = <<>>
    THEN [rows |-> rows, raised |-> FALSE, created |-> 0]
    ELSE IF name = "youtube"
    THEN bulk_create_videos(rows, fetched)
    ELSE bulk_create_articles(rows, name, fetched)

\* ScrapingResult.
ScrapingResult(source, items, success, error) ==
    [source |-> source, items |-> items, count |-> Len(items),
     success |-> success, error |-> error]

\* ScrapingResults.get_summary over the results dict of run_scrapers (a
\* source without an entry gets default_result, whose count is 0).
get_summary(results) ==
    [n \in RegistryNames |-> IF n \in DOMAIN results THEN results[n].count ELSE 0]

IdleScraping == [pc |-> "idle", idx |-> 0, results |-> [n \in {} |-> None],
                 summary |-> [n \in {} |-> 0]]

\* run_daily_pipeline calls run_scrapers(hours).
RunScrapers ==
    /\ scraping.pc \in {"idle", "scoring"}
    /\ scraping' = [IdleScraping EXCEPT !.pc = "loop", !.idx = 1]
    /\ UNCHANGED <<now, articles, digests, pass, runner, delivery, emails,
                   call, item_rows>>

\* One iteration of the loop of run_scrapers: fetch and store one source,
\* with its except branch.
ScrapeSource ==
    /\ scraping.pc = "loop"
    /\ scraping.idx <= Len(SCRAPER_REGISTRY)
    /\ \E fetch_ok \in BOOLEAN, fetched \in Fetches :
         LET name == SCRAPER_REGISTRY[scraping.idx]
             saved == save_func(item_rows, name, fetched)
             raised == ~fetch_ok \/ saved.raised
             result == IF raised
                       THEN ScrapingResult(name, <<>>, FALSE, [str |-> "e"])
                       ELSE ScrapingResult(name, fetched, TRUE, None)
         IN  /\ item_rows' = IF raised THEN item_rows ELSE saved.rows
             /\ scraping' = [scraping EXCEPT
                   !.idx = @ + 1,
                   !.results = [n \in DOMAIN @ \cup {name} |->
                                  IF n = name THEN result ELSE @[n]]]
    /\ UNCHANGED <<now, articles, digests, pass, runner, delivery, emails, call>>

\* run_scrapers returned: results["scraping"] is its summary and the run goes
\* on to its scoring stage.
RunnerScraped ==
    /\ scraping.pc = "loop"
    /\ scraping.idx > Len(SCRAPER_REGISTRY)
    /\ scraping' = [scraping EXCEPT !.pc = "scoring",
                                    !.summary = get_summary(scraping.results)]
    /\ UNCHANGED <<now, articles, digests, pass, runner, delivery, emails,
                   call, item_rows>>

\* A direct call of bulk_create_articles.
BulkCreateArticles ==
    /\ \E source \in RegistryNames, batch \in GuidBatches :
         LET r == bulk_create_articles(item_rows, source, batch)
         IN  /\ item_rows' = r.rows
             /\ call' = [op |-> "bulk_create_articles", source |-> source,
                         batch |-> batch, raised |-> r.raised,
                         returned |-> r.created]
    /\ UNCHANGED <<now, articles, digests, pass, runner, delivery, emails,
                   scraping>>

\* ------------------------------------------------------------------ system
\* The clock advances.
Tick ==
    /\ now < MaxTime
    /\ now' = now + 1
    /\ UNCHANGED <<articles, digests, pass, runner, delivery, emails, call, item_rows, scraping>>

Init ==
    /\ now = InitNow
    /\ articles \in [ItemIds -> 0..InitNow]
    /\ digests = {}
    /\ pass = [p \in Procs |-> IdlePass]
    /\ runner = IdleRunner
    /\ delivery = IdleDelivery
    /\ emails = <<>>
    /\ call = NoCall
    /\ item_rows = {}
    /\ scraping = IdleScraping

\* The two Lambda handlers, digest_handler and email_handler, against one
\* store: scoring passes and delivery runs, one of each at a time.
Next ==
    \/ Tick
    \/ ProcessDigests
    \/ SendDigestEmail
    \/ MarkSent

Spec == Init /\ [][Next]_vars

\* Two invocations of the digest handler that overlap.
NextOverlap ==
    \/ Tick
    \/ \E p \in LambdaProcs : LambdaDigest(p)
    \/ \E p \in LambdaProcs : ProcessItem(p)
    \/ \E p \in LambdaProcs : ReturnPass(p)

SpecOverlap == Init /\ [][NextOverlap]_vars

\* run_daily_pipeline: the scoring stage fanned out over the active users.
NextDaily ==
    \/ Tick
    \/ RunnerStart
    \/ RunnerUserPass
    \/ RunnerUserError
    \/ ProcessItem("daily")
    \/ ReturnPass("daily")
    \/ RunnerCollect
    \/ RunnerScored

SpecDaily == Init /\ [][NextDaily]_vars

\* The digest store under any sequence of calls of its two writers.
NextStore ==
    \/ Tick
    \/ CreateDigest
    \/ MarkDigestsAsSent

SpecStore == Init /\ [][NextStore]_vars

\* Delivery runs over a table that also holds rows without a score.
NextRank ==
    \/ Tick
    \/ CreateDigestDirect
    \/ SendDigestEmail
    \/ MarkSent

SpecRank == Init /\ [][NextRank]_vars

\* A scoring pass from the responses of the model capability on.
NextScore ==
    \/ Tick
    \/ LambdaDigest("lambda1")
    \/ ProcessItemResponse("lambda1")
    \/ ReturnPass("lambda1")

SpecScore == Init /\ [][NextScore]_vars

\* The extractor applied to the response texts of the model.
NextExtract ==
    \/ EmitToken
    \/ ParseStructuredOutput

SpecExtract == Init /\ [][NextExtract]_vars

\* The scraping stage of run_daily_pipeline.
NextScrape ==
    \/ RunScrapers
    \/ ScrapeSource
    \/ RunnerScraped

SpecScrape == Init /\ [][NextScrape]_vars

\* The articles table under any sequence of calls of its bulk writer.
NextArticles ==
    \/ BulkCreateArticles

SpecArticles == Init /\ [][NextArticles]_vars

\* Two overlapping scoring passes with create_digest in its two steps.
NextRace ==
    \/ \E p \in LambdaProcs : LambdaDigest(p)
    \/ \E p \in LambdaProcs : CheckExisting(p)
    \/ \E p \in LambdaProcs : InsertCommit(p)
    \/ \E p \in LambdaProcs : ReturnPass(p)

SpecRace == Init /\ [][NextRace]_vars

\* Delivery runs whose parameters are kept.
NextSend ==
    \/ Tick
    \/ ProcessDigests
    \/ LambdaEmail
    \/ MarkSent

SpecSend == Init /\ [][NextSend]_vars

\* Delivery runs of a process that stops between send and mark: the run
\* that stops, and the run after it up to the email it sends.
NextStop ==
    \/ Tick
    \/ ProcessDigests
    \/ SendDigestEmail
    \/ ProcessStops

SpecStop == Init /\ [][NextStop]_vars

\* The introduction of an email under any response of the model.
NextIntro ==
    \/ Tick
    \/ GenerateIntroduction

SpecIntro == Init /\ [][NextIntro]_vars

\* ===================================================================== claims

\* C1: a Digest row, once created, is never deleted and none of its fields
\* other than sent_at ever changes; create_digest called for a composite id
\* that already has a row returns None and leaves the table as it was.
C1_DigestCreatedOnce ==
    [][ /\ \A d \in digests :
              \E e \in digests' : e.id = d.id /\ [e EXCEPT !.sent_at = d.sent_at] = d
        /\ ( /\ call' # call
             /\ call'.op = "create_digest"
             /\ \E d \in digests : d.id \in call'.ids )
           => (call'.returned = "None" /\ digests' = digests)
      ]_vars

\* A create_digest call that found a row already sent, carrying another
\* title than the one passed, returned None.
C1_Witness ==
    /\ call.op = "create_digest"
    /\ call.returned = "None"
    /\ \E d \in digests : /\ d.id \in call.ids
                          /\ d.sent_at # NULL
                          /\ d.title # call.title

\* C3: sent_at of a Digest is set at most once: once it holds a timestamp,
\* no store operation clears it or replaces it by another timestamp.
C3_SentAtSetOnce ==
    [][ \A d \in digests :
            d.sent_at # NULL
                => \E e \in digests' : e.id = d.id /\ e.sent_at = d.sent_at
      ]_vars


UnsentIds(hours) == { d.id : d \in get_recent_digests(digests, hours, TRUE, now) }

\* C2: no re-send: once a delivery run has succeeded, no later fetch of
\* unsent digests returns an id of its email, and in sequential delivery
\* runs no digest id is part of more than one sent email.
C2_NoResend ==
    /\ \A i, j \in 1..Len(emails) :
          i # j => SeqRange(emails[i]) \cap SeqRange(emails[j]) = {}
    /\ delivery.pc = "idle"
          => \A i \in 1..Len(emails), hours \in 1..MaxHours :
                SeqRange(emails[i]) \cap UnsentIds(hours) = {}

\* Two delivery runs have each sent an email with an article, and a digest
\* of the first email is still inside the window.
C2_Witness ==
    /\ delivery.pc = "idle"
    /\ Len(emails) = 2
    /\ emails[1] # <<>> /\ emails[2] # <<>>
    /\ \E d \in get_recent_digests(digests, MaxHours, FALSE, now) :
          d.id \in SeqRange(emails[1])

\* The ids of the rows whose sent_at differs between this state and the next.
SentAtChanged ==
    { d.id : d \in { x \in digests : \E e \in digests' :
                        e.id = x.id /\ e.sent_at # x.sent_at } }

\* C4: after a successful send, the digests whose sent_at the run sets are
\* exactly the digests of the articles of the sent email, every other row is
\* left as it was, and marked_as_sent equals articles_count.
C4_MarksExactlyDelivered ==
    [][ (delivery.pc = "sent" /\ delivery'.pc = "idle")
          => /\ SentAtChanged = SeqRange(emails[Len(emails)])
             /\ \A d \in digests : d.id \notin SentAtChanged => d \in digests'
             /\ delivery'.result.success
             /\ delivery'.result.articles_count = Len(emails[Len(emails)])
             /\ delivery'.result.marked_as_sent = delivery'.result.articles_count
      ]_vars

\* A delivery run has marked the one digest it sent while an unsent digest
\* of its window, ranked below top_n, is in the store.
C4_Witness ==
    /\ delivery.pc = "idle"
    /\ delivery.result.outcome = "sent"
    /\ delivery.result.marked_as_sent = 1
    /\ UnsentIds(delivery.hours) # {}

\* C5: when the send capability fails, the run changes no sent_at, does not
\* report success and never reaches the marking; the digests it had fetched
\* are fetched again as unsent while they are inside the window.
C5_SendFailureMarksNothing ==
    /\ [](delivery.pc = "sent" => delivery.sent = "ok")
    /\ [][ ( /\ delivery.pc = "idle"
             /\ delivery' # delivery
             /\ delivery'.sent \in {"config_error", "transport_error"} )
           => /\ digests' = digests
              /\ delivery'.pc = "idle"
              /\ ~delivery'.result.success
              /\ \A d \in get_recent_digests(digests, delivery'.hours, TRUE, now) :
                    d.created_at >= now' - delivery'.hours
                       => d \in get_recent_digests(digests', delivery'.hours,
                                                   TRUE, now')
         ]_vars

\* A delivery run whose send failed has returned and the store holds unsent
\* digests of its window.
C5_Witness ==
    /\ delivery.pc = "idle"
    /\ delivery.sent \in {"config_error", "transport_error"}
    /\ ~delivery.result.success
    /\ UnsentIds(delivery.hours) # {}


\* C6: idempotent scoring: a scoring pass that starts when every stored item
\* of its window already has a Digest finds nothing to process: total = 0,
\* processed = 0, and it creates no row.
C6_IdempotentScoring ==
    \A p \in Procs :
        (pass[p].pc \in {"loop", "done"} /\ pass[p].allSeen)
            => /\ pass[p].total = 0
               /\ pass[p].processed = 0
               /\ pass[p].failed = 0

\* A pass has returned total = 0 over a window whose items all had a Digest.
C6_Witness ==
    \E p \in Procs :
        /\ pass[p].pc = "done"
        /\ pass[p].allSeen
        /\ pass[p].total = 0
        /\ Cardinality(digests) = NumItems

\* C7: multi-profile isolation: in a run over several active profiles every
\* item that was new and in the window when the run began is offered to the
\* scoring pass of each profile, whatever the passes of the profiles before
\* it did.
C7_ProfileIsolation ==
    ( /\ runner.stage = "scoring"
      /\ pass["daily"].pc = "loop"
      /\ pass["daily"].idx = 0 )
        => \A n \in runner.candidates :
              articles[n] >= now - runner.hours
                 => \E k \in 1..Len(pass["daily"].items) :
                       pass["daily"].items[k].id = n

\* C8: partial failure isolation: a failing item does not end the loop:
\* every item of the batch is handled, every item counted as processed has
\* its Digest row persisted, and with exactly one failing item the result is
\* total = n, processed = n - 1, failed = 1.
C8_PartialFailureIsolation ==
    /\ [](\A p \in Procs :
            pass[p].pc = "done"
               => /\ pass[p].idx = pass[p].total
                  /\ pass[p].failed = 1 => pass[p].processed = pass[p].total - 1)
    /\ [][ \A p \in Procs :
             ( /\ pass[p].pc = "loop" /\ pass'[p].pc = "loop"
               /\ pass'[p].idx = pass[p].idx + 1
               /\ pass'[p].failed = pass[p].failed )
                => /\ pass'[p].processed = pass[p].processed + 1
                   /\ \E d \in digests' \ digests :
                         d.article_id = pass[p].items[pass[p].idx + 1].id
         ]_vars

\* A pass over all the items has returned failed = 1 with the first item
\* of its batch left without a Digest and every later item processed.
C8_Witness ==
    \E p \in Procs :
        /\ pass[p].pc = "done"
        /\ pass[p].total = NumItems
        /\ pass[p].failed = 1
        /\ pass[p].duplicates = 0
        /\ pass[p].processed = NumItems - 1
        /\ ~HasRow(digests, digest_id(TypeOf(1), 1))
        /\ Cardinality(digests) = NumItems - 1

\* C9: an item whose create-if-absent finds a Digest already there counts as
\* neither processed nor failed, so processed + failed < total for a pass
\* that met such an item.
C9_DuplicateNotCounted ==
    \A p \in Procs :
        (pass[p].pc = "done" /\ pass[p].duplicates > 0)
            => pass[p].processed + pass[p].failed < pass[p].total

\* C10: at every step of a scoring pass, and in its result, every handled
\* item is counted once: processed + failed is the number of items handled
\* and never exceeds total.
C10_CountsWithinTotal ==
    \A p \in Procs :
        /\ pass[p].processed + pass[p].failed = pass[p].idx
        /\ pass[p].idx <= pass[p].total
        /\ pass[p].processed + pass[p].failed <= pass[p].total

\* A pass has returned after a success and a save that found the row
\* present, and another after a failure of the model or of the commit.
C10_Witness ==
    /\ \E p \in Procs :
          /\ pass[p].pc = "done"
          /\ pass[p].processed >= 1
          /\ pass[p].duplicates >= 1
    /\ \E p \in Procs :
          /\ pass[p].pc = "done"
          /\ pass[p].failed > pass[p].duplicates


\* C11: the ranked list is ordered by relevance_score descending and, among
\* equal scores, by created_at descending: of any two digests of the list,
\* the one placed first has the greater score, or the same score and a
\* created_at that is not older.
C11_RankedByScoreThenNewest ==
    \A hours \in 1..MaxHours, top_n \in 0..NumItems :
        \A r \in generate_email_digest(
                    get_recent_digests(digests, hours, TRUE, now), top_n) :
            \A i, j \in 1..Len(r) :
                i < j =>
                    \/ r[i].relevance_score > r[j].relevance_score
                    \/ /\ r[i].relevance_score = r[j].relevance_score
                       /\ r[i].created_at >= r[j].created_at

\* A delivery run has sent the newer of two unsent digests of its window
\* that have the same score.
C11_Witness ==
    /\ delivery.pc = "sent"
    /\ Len(delivery.digest_ids) = 1
    /\ \E x, y \in get_recent_digests(digests, delivery.hours, TRUE, now) :
          /\ x.id = delivery.digest_ids[1]
          /\ y.relevance_score = x.relevance_score
          /\ y.created_at < x.created_at


\* C12: when the window holds k >= 1 unsent digests with a score, the
\* selection has exactly min(top_n, k) entries, all of them scored and
\* distinct, and no scored digest left out ranks above a selected one: no
\* unscored digest is selected and nothing is padded when k < top_n.
C12_SelectsTopScored ==
    \A hours \in 1..MaxHours, top_n \in 0..NumItems :
        LET fetched == get_recent_digests(digests, hours, TRUE, now)
            scored == { d \in fetched : d.relevance_score # NULL }
            k == Cardinality(scored)
        IN  scored # {} =>
              \A r \in generate_email_digest(fetched, top_n) :
                 /\ Len(r) = IF top_n < k THEN top_n ELSE k
                 /\ \A i \in 1..Len(r) : r[i] \in scored
                 /\ \A i, j \in 1..Len(r) : i # j => r[i] # r[j]
                 /\ \A i \in 1..Len(r) : \A d \in scored \ SeqRange(r) :
                       \/ r[i].relevance_score > d.relevance_score
                       \/ /\ r[i].relevance_score = d.relevance_score
                          /\ r[i].created_at >= d.created_at

\* A delivery run has sent the only scored digest of a window that also
\* holds an unsent digest without a score.
C12_Witness ==
    /\ delivery.pc = "sent"
    /\ Len(delivery.digest_ids) = 1
    /\ LET fetched == get_recent_digests(digests, delivery.hours, TRUE, now)
       IN  /\ \E d \in fetched : d.relevance_score = NULL
           /\ \A d \in fetched :
                 d.relevance_score # NULL <=> d.id = delivery.digest_ids[1]


\* The unsent digests of the window are there and none of them has a score.
AllUnscored(fetched) ==
    /\ fetched # {}
    /\ \A d \in fetched : d.relevance_score = NULL

\* A step that is a delivery run over a window whose unsent digests all
\* lack a score.
RunOverAllUnscored ==
    /\ delivery.pc = "idle"
    /\ delivery' # delivery
    /\ AllUnscored(get_recent_digests(digests, delivery'.hours, TRUE, now))

\* C13, as stated: when every unsent digest of the window lacks a score, the
\* selector returns all of them, and the delivery run goes on to send an
\* email instead of reporting skipped.
C13_AllUnscoredReturnsAll ==
    /\ [](\A hours \in 1..MaxHours, top_n \in 1..MaxTopN :
            LET fetched == get_recent_digests(digests, hours, TRUE, now)
            IN  AllUnscored(fetched) =>
                  \A r \in generate_email_digest(fetched, top_n) :
                      SeqRange(r) = fetched)
    /\ [][ RunOverAllUnscored => ~delivery'.result.skipped ]_vars

\* C13, amended: when every unsent digest of the window lacks a score, the
\* selector ranks all n of them, newest first, and returns the first
\* min(top_n, n); the delivery run does not report skipped: it hands the
\* selection to the send capability, or returns success = false when the
\* email agent cannot be built or the second fetch finds the window empty.
C13_AllUnscoredFallback ==
    /\ [](\A hours \in 1..MaxHours, top_n \in 0..NumItems :
            LET fetched == get_recent_digests(digests, hours, TRUE, now)
                n == Cardinality(fetched)
            IN  AllUnscored(fetched) =>
                  \A r \in generate_email_digest(fetched, top_n) :
                     /\ Len(r) = IF top_n < n THEN top_n ELSE n
                     /\ \A i \in 1..Len(r) : r[i] \in fetched
                     /\ \A i, j \in 1..Len(r) : i # j => r[i] # r[j]
                     /\ \A i \in 1..Len(r) : \A d \in fetched \ SeqRange(r) :
                           r[i].created_at >= d.created_at)
    /\ [][ RunOverAllUnscored =>
             \/ delivery'.sent # "none"
             \/ /\ delivery'.pc = "idle"
                /\ ~delivery'.result.skipped
                /\ ~delivery'.result.success
         ]_vars

\* A delivery run has sent one digest of a window that holds two unsent
\* digests, both without a score.
C13_Witness ==
    /\ delivery.pc = "sent"
    /\ delivery.sent = "ok"
    /\ Len(delivery.digest_ids) = 1
    /\ LET fetched == get_recent_digests(digests, delivery.hours, TRUE, now)
       IN  /\ AllUnscored(fetched)
           /\ Cardinality(fetched) >= 2
           /\ \E d \in fetched : d.id = delivery.digest_ids[1]


\* C14: ranking is a deterministic total order: for the same digests the
\* selector has one possible output sequence, whatever the order in which
\* the store returns the rows, also when two digests are equal in both
\* relevance_score and created_at.
C14_RankingDeterministic ==
    \A hours \in 1..MaxHours, top_n \in 0..NumItems :
        \A r1, r2 \in generate_email_digest(
                         get_recent_digests(digests, hours, TRUE, now), top_n) :
            r1 = r2


\* C15: a delivery run over a window with no unsent digest returns at once
\* with skipped = true (success, no article): the model capability and the
\* send capability are not invoked and no digest changes.
C15_SkipsWhenNothingUnsent ==
    [][ ( /\ delivery.pc = "idle"
          /\ delivery' # delivery
          /\ get_recent_digests(digests, delivery'.hours, TRUE, now) = {} )
        => /\ delivery'.pc = "idle"
           /\ delivery'.result.skipped
           /\ delivery'.result.success
           /\ delivery'.result.articles_count = 0
           /\ ~delivery'.model_called
           /\ delivery'.sent = "none"
           /\ emails' = emails
           /\ digests' = digests
      ]_vars

\* After an email went out, a delivery run has found no unsent digest in
\* its window, which holds a sent one, and returned skipped.
C15_Witness ==
    /\ delivery.pc = "idle"
    /\ delivery.result.skipped
    /\ Len(emails) >= 1
    /\ get_recent_digests(digests, delivery.hours, TRUE, now) = {}
    /\ get_recent_digests(digests, delivery.hours, FALSE, now) # {}


\* How many entries of the batch carry the composite id.
CountOf(batch, id) ==
    Cardinality({ k \in 1..Len(batch) :
                     digest_id(batch[k].type, batch[k].id) = id })

\* Batches of up to two stored items, the same item twice included.
Batches ==
    LET D == { ItemDict(articles, n) : n \in ItemIds }
    IN  {<<>>} \cup { <<a>> : a \in D } \cup { <<a, b>> : a, b \in D }

\* C16: without a limit, get_items_to_process returns each stored item whose
\* published_at is at or after window_start = now - hours and whose
\* composite id is not among the recent digest ids, once, and nothing else;
\* the filter itself keeps every entry of a batch whose id is not among
\* them, so an id that is twice in the batch is twice in the result.
C16_WindowAndSeenFilter ==
    \A hours \in 1..MaxHours :
        LET seen == get_recent_digest_ids(digests, hours, now)
            items == get_items_to_process(digests, articles, hours, NULL,
                                          now, now)
        IN  /\ \A n \in ItemIds :
                  CountOf(items, digest_id(TypeOf(n), n)) =
                      IF /\ articles[n] >= now - hours
                         /\ digest_id(TypeOf(n), n) \notin seen
                      THEN 1 ELSE 0
            /\ \A k \in 1..Len(items) : items[k].id \in ItemIds
            /\ \A batch \in Batches :
                  LET out == filter_items(batch, seen)
                  IN  \A n \in ItemIds :
                         CountOf(out, digest_id(TypeOf(n), n)) =
                             IF digest_id(TypeOf(n), n) \in seen
                             THEN 0
                             ELSE CountOf(batch, digest_id(TypeOf(n), n))

\* A pass has just listed its items: one published exactly at window_start
\* is in the list, and a stored item published before it is not.
C16_Witness ==
    \E p \in Procs, hours \in 1..MaxHours :
        /\ pass[p].pc = "loop"
        /\ pass[p].idx = 0
        /\ pass[p].items = get_items_to_process(digests, articles, hours,
                                                NULL, now, now)
        /\ \E k \in 1..Len(pass[p].items) :
              pass[p].items[k].published_at = now - hours
        /\ \E n \in ItemIds : articles[n] < now - hours


\* The block a fence mark of `marks` opens, when a fence mark closes it.
FencedBlock(text, marks) ==
    LET open == find(text, marks, 1)
        close == IF open = 0 THEN 0
                 ELSE find(text, {FENCE, FENCE_JSON}, open + 1)
    IN  IF close = 0 THEN [found |-> FALSE, span |-> <<>>]
        ELSE [found |-> TRUE, span |-> SubSeq(text, open + 1, close - 1)]

\* The attempts on the model text, in order: the block fenced as JSON, any
\* fenced block, the raw text, the span from the first "{" to the last "}".
Attempts(text) ==
    << FencedBlock(text, {FENCE_JSON}),
       FencedBlock(text, {FENCE, FENCE_JSON}),
       [found |-> TRUE, span |-> text],
       greedy_span(text) >>

\* The result of the first attempt that parses and validates, the
\* extraction error when there is none.
FirstSuccess(text) ==
    LET A == Attempts(text)
        Good == { k \in 1..Len(A) :
                     A[k].found /\ parse_and_validate(A[k].span).ok }
    IN  IF Good = {} THEN [ok |-> FALSE, value |-> None]
        ELSE parse_and_validate(
                 A[CHOOSE k \in Good : \A m \in Good : k <= m].span)

\* C17: the extractor returns the result of the first of its four ordered
\* attempts on the model text that parses and validates, and raises the
\* extraction error only when none of them does.
C17_FirstSuccessfulAttempt ==
    call.op = "parse" => call.returned = FirstSuccess(call.text)

\* Prose only, one run or more.
IsProse(s) == s # <<>> /\ \A k \in 1..Len(s) : s[k] = "prose"

\* C18: a valid object inside a JSON-tagged fence after some prose is
\* recovered; with no fence, a single inline object with prose around it is
\* recovered; pure prose gives the extraction error and no value.
C18_FallbackCases ==
    call.op = "parse" =>
        LET text == call.text
            object == <<"{", "fields", "}">>
            recovered == /\ call.returned.ok
                         /\ call.returned.value = validate(Payload("fields")).value
        IN  /\ (\E k \in 1..Len(text) :
                   /\ IsProse(SubSeq(text, 1, k))
                   /\ SubSeq(text, k + 1, Len(text))
                         = <<FENCE_JSON>> \o object \o <<FENCE>>)
                  => recovered
            /\ (\E i, j \in 0..Len(text) :
                   /\ i + 3 = j
                   /\ SubSeq(text, i + 1, j) = object
                   /\ i > 0 => IsProse(SubSeq(text, 1, i))
                   /\ j < Len(text) => IsProse(SubSeq(text, j + 1, Len(text)))
                   /\ Len(text) > 3)
                  => recovered
            /\ IsProse(text)
                  => (~call.returned.ok /\ call.returned.value = None)

\* The extractor has recovered the object of a response that opens with
\* prose and then carries the object in a JSON-tagged fence.
C18_Witness ==
    /\ call.op = "parse"
    /\ call.text = <<"prose", FENCE_JSON, "{", "fields", "}", FENCE>>
    /\ call.returned.ok
    /\ call.returned.value.relevance_score = 7


\* The members of the JSON object the model answered with in this call.
AnsweredObject(c) ==
    /\ c.op = "model"
    /\ ~c.raised
    /\ json_loads(c.text).ok

\* A step in which pass p handles its next item.
ItemStep(p) ==
    /\ pass[p].pc = "loop"
    /\ pass'[p].idx = pass[p].idx + 1

\* C19: a model response whose relevance_score is missing or outside
\* [0, 10] is a failed extraction: the item is counted failed, no Digest is
\* created for it, nothing is clamped or defaulted; so every Digest of a
\* scoring pass has its relevance_score within [0, 10].
C19_ScoreOutOfRangeFails ==
    /\ [](\A d \in digests : d.relevance_score >= 0 /\ d.relevance_score <= 10)
    /\ [][ \A p \in Procs :
             ( /\ ItemStep(p)
               /\ AnsweredObject(call')
               /\ LET score == Payload(json_loads(call'.text).data).relevance_score
                  IN  score = NULL \/ score < 0 \/ score > 10 )
                => /\ pass'[p].failed = pass[p].failed + 1
                   /\ pass'[p].processed = pass[p].processed
                   /\ digests' = digests
         ]_vars

\* A pass over all the items has returned: the model answered the last item
\* with a relevance_score above 10, the item is the one counted failed and
\* the one without a Digest.
C19_Witness ==
    \E p \in Procs :
        /\ pass[p].pc = "done"
        /\ call.op = "model"
        /\ call.text = <<"{", "score_high", "}">>
        /\ pass[p].total = NumItems
        /\ pass[p].failed = 1
        /\ pass[p].processed = NumItems - 1
        /\ Cardinality(digests) = NumItems - 1

\* C20: a model response that leaves category out, or gives one outside the
\* fixed set, is extracted with category = "others": the Digest created for
\* the item carries "others", and every Digest of a scoring pass has a
\* category of the fixed set.
C20_CategoryInFixedSet ==
    /\ [](\A d \in digests : d.category \in VALID_CATEGORIES)
    /\ [][ \A p \in Procs :
             ( /\ ItemStep(p)
               /\ AnsweredObject(call')
               /\ Payload(json_loads(call'.text).data).category
                     \notin VALID_CATEGORIES
               /\ pass'[p].processed = pass[p].processed + 1 )
                => \E d \in digests' \ digests : d.category = "others"
         ]_vars


\* C21: a configuration error is fatal: when the scoring pass of a profile
\* cannot be built because the model credential is missing, the run leaves
\* its scoring loop without attempting a later profile or stage, and the
\* error is not added to the failed count.
C21_ConfigErrorFatal ==
    [][ ( /\ runner.stage = "scoring"
          /\ runner'.userIdx # runner.userIdx
          /\ pass' = pass
          /\ call'.op = "raised"
          /\ call'.cause = "config_error" )
            => ( /\ runner'.total_failed = runner.total_failed
                 /\ runner'.stage \notin {"scoring", "scored"} ) ]_vars

\* C22: a failing source does not stop the scraping stage: when the run
\* reaches its scoring stage every registered source has a result, the items
\* of every source that did not fail are stored, and the summary entry of a
\* source that failed differs from the entry of a source that returned zero
\* items.
C22_SourceFailureReported ==
    scraping.pc = "scoring"
        => /\ DOMAIN scraping.results = RegistryNames
           /\ \A n \in RegistryNames :
                 scraping.results[n].success
                    => \A k \in 1..Len(scraping.results[n].items) :
                          [source |-> n, guid |-> scraping.results[n].items[k]]
                              \in item_rows
           /\ \A n \in RegistryNames :
                 ~scraping.results[n].success
                    => scraping.summary[n] #
                          get_summary([m \in {n} |->
                              ScrapingResult(n, <<>>, TRUE, None)])[n]

\* C23: generate_introduction always returns a greeting that starts with
\* "Hey <profile name>": when the model call fails, greeting and introduction
\* are the fixed fallback texts; when the model returns a greeting without
\* that prefix, the greeting is replaced by the fallback greeting and the
\* introduction of the model is kept.
C23_GreetingStartsWithHeyName ==
    call.op = "generate_introduction"
        => LET r == call.returned
               fb == FallbackGreeting(call.name, call.t)
           IN  /\ startswith(r.greeting, <<"Hey", call.name>>)
               /\ (call.ranked_articles # <<>> /\ call.response.raised)
                     => r = [greeting |-> fb, introduction |-> FALLBACK_INTRO]
               /\ ( /\ call.ranked_articles # <<>>
                    /\ ~call.response.raised
                    /\ ~startswith(call.response.greeting, <<"Hey", call.name>>) )
                     => ( /\ r.greeting = fb
                          /\ r.introduction = call.response.introduction )

C23_Witness ==
    /\ call.op = "generate_introduction"
    /\ call.ranked_articles # <<>>
    /\ ~call.response.raised
    /\ call.response.greeting = <<"Hey", "B", "news">>
    /\ call.name = "A"
    /\ call.returned.greeting = FallbackGreeting("A", call.t)

\* C24: send-then-mark is not atomic: when the process has stopped after
\* the transport accepted the email and before the marking, every digest of
\* that email still has sent_at = null, and while its created_at is inside
\* the window it is among the unsent digests the next delivery run fetches.
C24_StopLeavesUnsent ==
    (delivery.pc = "idle" /\ delivery.result.outcome = "stopped")
        => /\ emails # <<>>
           /\ emails[Len(emails)] = delivery.digest_ids
           /\ \A d \in digests :
                 d.id \in SeqRange(delivery.digest_ids)
                    => /\ d.sent_at = NULL
                       /\ \A hours \in 1..MaxHours :
                             d.created_at >= now - hours
                                => d.id \in UnsentIds(hours)
           /\ \A k \in 1..Len(delivery.digest_ids) :
                 HasRow(digests, delivery.digest_ids[k])

\* The duplicate send: the process stopped after the first email, and the
\* next delivery run has sent a digest of that email again.
C24_Witness ==
    /\ Len(emails) = 2
    /\ SeqRange(emails[1]) \cap SeqRange(emails[2]) # {}
    /\ delivery.pc = "sent"

\* C25: article uniqueness is on the pair (source, guid): a call of
\* bulk_create_articles whose batch (without repeated guids) holds a guid
\* that is stored under a different source only does not raise, stores every
\* article of the batch under its source, and returns the number of articles
\* that had no row of their own (source, guid).
C25_UniquePerSourceGuid ==
    [][ ( /\ call'.op = "bulk_create_articles"
          /\ call'.source \in VALID_SOURCES
          /\ call'.batch \in Fetches
          /\ \E k \in 1..Len(call'.batch) :
                /\ [source |-> call'.source, guid |-> call'.batch[k]] \notin item_rows
                /\ \E r \in item_rows : /\ r.guid = call'.batch[k]
                                         /\ r.source \in VALID_SOURCES
                                         /\ r.source # call'.source )
            => ( /\ ~call'.raised
                 /\ \A k \in 1..Len(call'.batch) :
                       [source |-> call'.source, guid |-> call'.batch[k]]
                           \in item_rows'
                 /\ call'.returned = Cardinality(
                       { g \in SeqRange(call'.batch) :
                           [source |-> call'.source, guid |-> g] \notin item_rows })
               ) ]_vars

\* C26: under any interleaving of two scoring passes whose create_digest
\* calls for one composite id overlap, the table never holds two rows with
\* that id, a row once committed keeps its fields, and a pass counts an item
\* as processed only with the commit that added the row, so that the two
\* passes together never count more items than the table has rows.
C26_RaceKeepsOneRow ==
    /\ []( /\ \A d, e \in digests : d.id = e.id => d = e
           /\ pass["lambda1"].processed + pass["lambda2"].processed
                 <= Cardinality(digests) )
    /\ [][ /\ \A d \in digests : d \in digests'
           /\ \A p \in LambdaProcs :
                 pass'[p].processed = pass[p].processed + 1
                    => /\ pass[p].pc = "insert"
                       /\ ~HasRow(digests, pass[p].pending.id)
                       /\ digests' = digests \cup {pass[p].pending}
                       /\ \A q \in LambdaProcs \ {p} : pass'[q] = pass[q]
         ]_vars

\* Both passes found no row for the same id; one has committed its row and
\* counted the item, the other still holds a different row to insert.
C26_Witness ==
    /\ pass["lambda2"].pc = "insert"
    /\ HasRow(digests, pass["lambda2"].pending.id)
    /\ pass["lambda2"].pending \notin digests
    /\ pass["lambda1"].processed = 1

\* C27: retry of failed items: the step in which an item is counted failed
\* (the model raised, its output did not parse, or the store raised on save)
\* leaves no Digest row for the item, and every scoring pass that starts
\* lists exactly the stored items that are inside its window and have no
\* Digest row, the items that failed before among them.
C27_FailedItemRetried ==
    [][ \A p \in Procs :
          /\ ( /\ ItemStep(p)
               /\ pass'[p].failed = pass[p].failed + 1 )
                => LET item == pass[p].items[pass[p].idx + 1]
                   IN  /\ digests' = digests
                       /\ ~HasRow(digests', digest_id(item.type, item.id))
          /\ ( /\ pass[p].pc \in {"idle", "done"}
               /\ pass'[p].pc = "loop" )
                => \E hours \in 1..MaxHours :
                      \A n \in ItemIds :
                         ( /\ articles[n] >= now' - hours
                           /\ ~HasRow(digests, digest_id(TypeOf(n), n)) )
                            <=> \E k \in 1..Len(pass'[p].items) :
                                   pass'[p].items[k].id = n
      ]_vars

\* The model raised on the last item of a pass, item 2, while item 1 got its
\* Digest; the next pass has started and lists item 2 again.
C27_Witness ==
    /\ call.op = "model"
    /\ call.raised
    /\ pass["lambda1"].pc = "loop"
    /\ pass["lambda1"].idx = 0
    /\ HasRow(digests, digest_id(TypeOf(1), 1))
    /\ Len(pass["lambda1"].items) = 1
    /\ pass["lambda1"].items[1].id = 2

\* C28: every email a delivery run hands to the send capability holds at
\* least one and at most top_n articles, whatever the store holds and for
\* every top_n >= 0.
C28_EmailNeverEmpty ==
    [][ emails' # emails
          => /\ emails'[Len(emails')] # <<>>
             /\ Len(emails'[Len(emails')]) <= call'.top_n ]_vars

\* C29: a successful delivery does not mark the digests of its window that
\* it did not deliver (those ranked below top_n): each of them keeps
\* sent_at = null and, while its created_at is inside the window, is among
\* the digests get_recent_digests returns to the next delivery run.
C29_BelowTopNStaysEligible ==
    [][ (delivery.pc = "sent" /\ delivery'.pc = "idle")
          => \A d \in digests :
                ( /\ d.sent_at = NULL
                  /\ d.id \notin SeqRange(emails[Len(emails)]) )
                   => /\ d \in digests'
                      /\ \A hours \in 1..MaxHours :
                            d.created_at >= now' - hours
                               => d \in get_recent_digests(digests', hours,
                                                           TRUE, now')
      ]_vars

\* A delivery has marked the one digest it sent; a scored digest of its
\* window with a lower score is still unsent and is fetched by the next run.
C29_Witness ==
    /\ delivery.pc = "idle"
    /\ delivery.result.outcome = "sent"
    /\ delivery.result.articles_count = 1
    /\ \E d, e \in digests :
          /\ e.id = emails[Len(emails)][1]
          /\ e.sent_at # NULL
          /\ d.sent_at = NULL
          /\ d.relevance_score # NULL
          /\ d.relevance_score < e.relevance_score
          /\ d \in get_recent_digests(digests, delivery.hours, TRUE, now)

\* C30: every Digest created by the scoring stage of a run is eligible for
\* the delivery stage of the same run: when the scoring stage ends and the
\* delivery stage takes its cutoff with the same hours, get_recent_digests
\* returns the Digest of every item that was new in the window when the run
\* began and has been scored by it.
C30_ScoredInRunIsEligible ==
    [][ (runner.stage = "scoring" /\ runner'.stage = "scored")
          => \A n \in runner.candidates :
                \A d \in digests' :
                   d.id = digest_id(TypeOf(n), n)
                      => d \in get_recent_digests(digests', runner.hours,
                                                  TRUE, now')
      ]_vars

====
